---- MODULE Spec2Model ----
(***************************************************************************)
(* The greeting view of frontend/src/App.jsx and its HTTP helper.          *)
(*                                                                         *)
(* App.jsx holds two revisions of the component that perform the request   *)
(* (the two sides of its merge conflict):                                  *)
(*   "fetch": window.fetch with a .then/.then/.catch chain (lines 21-36,   *)
(*            repeated as the HEAD side, lines 43-55);                     *)
(*   "axios": async fetchData over getHello over an axios instance         *)
(*            (lines 60-82 and 90-104).                                    *)
(* The first revision in the file (lines 6-17) is a static page with no    *)
(* state and no request, and has nothing to model.                         *)
(*                                                                         *)
(* One behaviour is one mount of one revision under one environment.       *)
(* Strings are TLA+ strings; a JavaScript value that may be undefined is a *)
(* record [t, s].                                                          *)
(***************************************************************************)
EXTENDS Naturals, Sequences, FiniteSets, TLC

VARIABLES
    variant,        \* which revision of App is mounted
    env,            \* import.meta.env.VITE_API_URL
    api,            \* the axios instance of line 92: [baseURL]
    phase,          \* "initial" | "mounted" | "unmounted"
    msg,            \* the useState cell (msg / message)
    view,           \* the text the DOM shows
    dirty,          \* a state update waits for its re-render
    renders,        \* render passes so far
    effectPending,  \* the last commit scheduled the effect
    pc,             \* position of the asynchronous chain
    resp,           \* what the network answered
    res,            \* the response object the code holds
    data,           \* the parsed body the code holds
    err,            \* the rejection reason the code holds
    helloResult,    \* the promise getHello returned
    log,            \* console.error calls
    requests,       \* URLs of the GET requests issued
    inflight,       \* requests issued and not yet settled
    setCalls,       \* arguments of the setMsg / setMessage calls
    unmountedAt     \* pc at the moment of unmount, "" while never unmounted

vars == <<variant, env, api, phase, msg, view, dirty, renders, effectPending,
          pc, resp, res, data, err, helloResult, log, requests, inflight,
          setCalls, unmountedAt>>

-----------------------------------------------------------------------------
(* Bounds                                                                  *)

MaxRenders == 3

-----------------------------------------------------------------------------
(* JavaScript values                                                       *)

Str(s) == [t |-> "str", s |-> s]
Undef == [t |-> "undef", s |-> ""]

\* JavaScript truthiness of a string-or-undefined value.
Truthy(v) == v.t = "str" /\ Len(v.s) > 0

\* What React puts in the DOM for {v}: undefined renders nothing.
ToText(v) == IF v.t = "str" THEN v.s ELSE ""

Contains(hay, needle) ==
    \E i \in 1..(Len(hay) - Len(needle) + 1) :
        SubSeq(hay, i, i + Len(needle) - 1) = needle

-----------------------------------------------------------------------------
(* The environment: configuration and backend                              *)

Variants == {"fetch", "axios"}

Envs == {Undef, Str(""), Str("http://api.example.com")}

Statuses == {200, 404, 500}

\* Messages the backend puts in its greeting.
Msgs == {"hi", "boom", ""}

MsgOpen == "{\"message\":\""
MsgClose == "\"}"

\* The backend's JSON encoding of {message: m}.
JsonBody(m) == MsgOpen \o m \o MsgClose

NotJson == "<html>Bad Gateway</html>"

Bodies == {JsonBody(m) : m \in Msgs} \cup {"{}", "null", NotJson}

NoResp == [kind |-> "none", status |-> 0, body |-> ""]
NetErr == [kind |-> "neterr", status |-> 0, body |-> ""]
Responses ==
    {NetErr} \cup {[kind |-> "http", status |-> s, body |-> b] :
                      s \in Statuses, b \in Bodies}

\* Parsed JSON, as far as the component looks at it.
NoData == [t |-> "none", hasMessage |-> FALSE, message |-> Undef]
JsNull == [t |-> "null", hasMessage |-> FALSE, message |-> Undef]
\* A JavaScript string; its text is kept in the message field of the record.
JsText(b) == [t |-> "string", hasMessage |-> FALSE, message |-> Str(b)]
JsObj(has, m) == [t |-> "object", hasMessage |-> has, message |-> m]

\* JSON.parse on the bodies the backend sends.
JsonParse(b) ==
    IF b = "null" THEN [ok |-> TRUE, val |-> JsNull]
    ELSE IF b = "{}" THEN [ok |-> TRUE, val |-> JsObj(FALSE, Undef)]
    ELSE IF /\ Len(b) >= Len(MsgOpen) + Len(MsgClose)
            /\ SubSeq(b, 1, Len(MsgOpen)) = MsgOpen
            /\ SubSeq(b, Len(b) - Len(MsgClose) + 1, Len(b)) = MsgClose
         THEN [ok |-> TRUE,
               val |-> JsObj(TRUE, Str(SubSeq(b, Len(MsgOpen) + 1,
                                              Len(b) - Len(MsgClose))))]
    ELSE [ok |-> FALSE, val |-> NoData]

\* data.msg: a misspelt property read is undefined on every body.
GetMessageTypo(d) == Undef

\* data.message: the property read of lines 27 and 67.  A string has no such
\* property, an object without the key gives undefined.
GetMessage(d) == IF d.t = "object" /\ d.hasMessage THEN d.message ELSE Undef

-----------------------------------------------------------------------------
(* Configuration of the HTTP client                                        *)

DefaultBaseURL == "http://localhost:8000"
HelloPath == "/api/hello"
FetchURL == "http://127.0.0.1:8000/api/hello"

\* import.meta.env.VITE_API_URL ?? 'http://localhost:8000': only a missing
\* override falls back.
ApiBaseURLNullish(e) == IF e.t = "str" THEN e.s ELSE DefaultBaseURL

\* import.meta.env.VITE_API_URL || 'http://localhost:8000'
ApiBaseURL(e) == IF Truthy(e) THEN e.s ELSE DefaultBaseURL

\* The URL api.get('/api/hello') addresses.
ApiURL(a) == a.baseURL \o HelloPath

\* axios' validateStatus default: only 2xx fulfils the promise.
AxiosOk(status) == status >= 200 /\ status < 300

\* response.data: axios parses a JSON body and hands other text on as it is.
AxiosData(b) == IF JsonParse(b).ok THEN JsonParse(b).val ELSE JsText(b)

-----------------------------------------------------------------------------
(* Rendering                                                               *)

Loading == "Loading..."
Fallback == "Failed to fetch message"
AxiosHeading == "React + FastAPI"
AxiosLabel == "Message from backend: "

\* {msg ? "Loading..." : msg}: the branches of the conditional exchanged.
RenderFetchInverted(m) == IF Truthy(m) THEN Loading ELSE ToText(m)

\* {msg ? msg : "Loading..."}
RenderFetch(m) == IF Truthy(m) THEN m.s ELSE Loading

\* <h1>React + FastAPI</h1><p>Message from backend: {message}</p>
RenderAxios(m) == AxiosHeading \o AxiosLabel \o ToText(m)

Render(v, m) == IF v = "fetch" THEN RenderFetch(m) ELSE RenderAxios(m)

\* useState(""), useState('')
InitialMsg == Str("")

\* useEffect(..., []): the effect is scheduled by the mounting commit only.
EffectScheduled(isMount) == isMount

-----------------------------------------------------------------------------
(* State after module evaluation, before the first render                  *)

NoHello == [state |-> "none", data |-> NoData, err |-> ""]

Init ==
    /\ variant \in Variants
    /\ env \in Envs
    /\ api = [baseURL |-> ApiBaseURL(env)]
    /\ phase = "initial"
    /\ msg = InitialMsg
    /\ view = ""
    /\ dirty = FALSE
    /\ renders = 0
    /\ effectPending = FALSE
    /\ pc = "idle"
    /\ resp = NoResp
    /\ res = [status |-> 0, body |-> "", data |-> NoData]
    /\ data = NoData
    /\ err = ""
    /\ helloResult = NoHello
    /\ log = <<>>
    /\ requests = <<>>
    /\ inflight = 0
    /\ setCalls = <<>>
    /\ unmountedAt = ""

-----------------------------------------------------------------------------
(* React: render, effect, unmount                                          *)

\* First render and commit of <App />.
Mount ==
    /\ phase = "initial"
    /\ phase' = "mounted"
    /\ view' = Render(variant, msg)
    /\ renders' = 1
    /\ dirty' = FALSE
    /\ effectPending' = EffectScheduled(TRUE)
    /\ UNCHANGED <<variant, env, api, msg, pc, resp, res, data, err,
                   helloResult, log, requests, inflight, setCalls, unmountedAt>>

\* A later render pass.  React flushes a scheduled effect before it renders
\* again, hence the guard.
Rerender ==
    /\ phase = "mounted"
    /\ ~effectPending
    /\ renders < MaxRenders
    /\ view' = Render(variant, msg)
    /\ renders' = renders + 1
    /\ dirty' = FALSE
    /\ effectPending' = EffectScheduled(FALSE)
    /\ UNCHANGED <<variant, env, api, phase, msg, pc, resp, res, data, err,
                   helloResult, log, requests, inflight, setCalls, unmountedAt>>

\* The effect body: fetch(...) of line 25, or fetchData() -> getHello() ->
\* api.get('/api/hello') of lines 72, 66, 98.  It issues the request and
\* returns; the rest of the chain runs when the request settles.
RunEffect ==
    /\ phase = "mounted"
    /\ effectPending
    /\ effectPending' = FALSE
    /\ requests' = Append(requests,
                          IF variant = "fetch" THEN FetchURL ELSE ApiURL(api))
    /\ inflight' = inflight + 1
    /\ pc' = "pending"
    /\ UNCHANGED <<variant, env, api, phase, msg, view, dirty, renders, resp,
                   res, data, err, helloResult, log, setCalls, unmountedAt>>

\* A cleanup that drops the chain when the component goes away.
UnmountChainAbort(p) == IF p = "done" THEN p ELSE "cancelled"

\* What unmounting does to the chain: the effect returns no cleanup, so
\* nothing.
UnmountChain(p) == p

\* React removes the component.  A scheduled effect is flushed first.
Unmount ==
    /\ phase = "mounted"
    /\ ~effectPending
    /\ phase' = "unmounted"
    /\ view' = ""
    /\ dirty' = FALSE
    /\ unmountedAt' = pc
    /\ pc' = UnmountChain(pc)
    /\ UNCHANGED <<variant, env, api, msg, renders, effectPending, resp, res,
                   data, err, helloResult, log, requests, inflight, setCalls>>

\* setMsg(v) / setMessage(v): the cell takes v; a mounted component whose
\* state changed is re-rendered later.
SetState(v) ==
    /\ setCalls' = Append(setCalls, v)
    /\ msg' = v
    /\ dirty' = (dirty \/ (phase = "mounted" /\ v # msg))

-----------------------------------------------------------------------------
(* The fetch revision: lines 25-28                                         *)

ErrFetchNetwork == "TypeError: Failed to fetch"
ErrJsonSyntax == "SyntaxError: Unexpected token in JSON"
ErrNullRead == "TypeError: Cannot read properties of null (reading 'message')"

\* fetch(url) settles.  It rejects on a network error only: a response of
\* any status fulfils it.
FetchSettle ==
    /\ variant = "fetch"
    /\ pc = "pending"
    /\ \E r \in Responses :
        /\ resp' = r
        /\ IF r.kind = "neterr"
           THEN /\ err' = ErrFetchNetwork
                /\ pc' = "rejected"
                /\ res' = res
           ELSE /\ res' = [status |-> r.status, body |-> r.body, data |-> NoData]
                /\ pc' = "res"
                /\ err' = err
    /\ inflight' = inflight - 1
    /\ UNCHANGED <<variant, env, api, phase, msg, view, dirty, renders,
                   effectPending, data, helloResult, log, requests, setCalls,
                   unmountedAt>>

\* .then((res) => res.json())
ThenJson ==
    /\ variant = "fetch"
    /\ pc = "res"
    /\ IF JsonParse(res.body).ok
       THEN /\ data' = JsonParse(res.body).val
            /\ pc' = "data"
            /\ err' = err
       ELSE /\ err' = ErrJsonSyntax
            /\ pc' = "rejected"
            /\ data' = data
    /\ UNCHANGED <<variant, env, api, phase, msg, view, dirty, renders,
                   effectPending, resp, res, helloResult, log, requests,
                   inflight, setCalls, unmountedAt>>

\* .then((data) => setMsg(data.message))
ThenSetMsg ==
    /\ variant = "fetch"
    /\ pc = "data"
    /\ IF data.t = "null"
       THEN /\ err' = ErrNullRead
            /\ pc' = "rejected"
            /\ UNCHANGED <<msg, dirty, setCalls>>
       ELSE /\ SetState(GetMessage(data))
            /\ pc' = "done"
            /\ err' = err
    /\ UNCHANGED <<variant, env, api, phase, view, renders, effectPending,
                   resp, res, data, helloResult, log, requests, inflight,
                   unmountedAt>>

\* A catch handler that also stores the fallback text.
CatchStateFallback(m) == Str(Fallback)

\* What the .catch handler of line 28 does to the state cell: nothing.
CatchState(m) == m

\* .catch((err) => console.error(err))
CatchLog ==
    /\ variant = "fetch"
    /\ pc = "rejected"
    /\ log' = Append(log, [prefix |-> "", err |-> err])
    /\ msg' = CatchState(msg)
    /\ pc' = "done"
    /\ UNCHANGED <<variant, env, api, phase, view, dirty, renders,
                   effectPending, resp, res, data, err, helloResult, requests,
                   inflight, setCalls, unmountedAt>>

-----------------------------------------------------------------------------
(* The axios revision: lines 64-72 and 96-104                              *)

ErrAxiosNetwork == "AxiosError: Network Error"
ErrAxiosStatus == "AxiosError: Request failed with status code"
LogPrefix == "Error fetching data:"

\* api.get('/api/hello') settles: rejected on a network error and on a
\* status outside 2xx, fulfilled with the response otherwise.
ApiGetSettle ==
    /\ variant = "axios"
    /\ pc = "pending"
    /\ \E r \in Responses :
        /\ resp' = r
        /\ IF r.kind = "neterr"
           THEN /\ err' = ErrAxiosNetwork
                /\ pc' = "apiRejected"
                /\ res' = res
           ELSE IF ~AxiosOk(r.status)
           THEN /\ err' = ErrAxiosStatus
                /\ pc' = "apiRejected"
                /\ res' = res
           ELSE /\ res' = [status |-> r.status, body |-> r.body,
                           data |-> AxiosData(r.body)]
                /\ pc' = "apiFulfilled"
                /\ err' = err
    /\ inflight' = inflight - 1
    /\ UNCHANGED <<variant, env, api, phase, msg, view, dirty, renders,
                   effectPending, data, helloResult, log, requests, setCalls,
                   unmountedAt>>

\* A catch block that logs and returns: the failure becomes a value.
HelloOutcomeSwallow(fulfilled, r, e) ==
    [state |-> "fulfilled",
     data |-> IF fulfilled THEN r.data ELSE NoData,
     err |-> ""]

\* The promise getHello returns, from how api.get settled (lines 97-103):
\* the response's data, or the caught error thrown again.
HelloOutcome(fulfilled, r, e) ==
    IF fulfilled
    THEN [state |-> "fulfilled", data |-> r.data, err |-> ""]
    ELSE [state |-> "rejected", data |-> NoData, err |-> e]

\* getHello resumes after its await.
GetHelloResume ==
    /\ variant = "axios"
    /\ pc \in {"apiFulfilled", "apiRejected"}
    /\ helloResult' = HelloOutcome(pc = "apiFulfilled", res, err)
    /\ log' = IF pc = "apiRejected"
              THEN Append(log, [prefix |-> LogPrefix, err |-> err])
              ELSE log
    /\ pc' = IF helloResult'.state = "fulfilled"
             THEN "helloFulfilled" ELSE "helloRejected"
    /\ UNCHANGED <<variant, env, api, phase, msg, view, dirty, renders,
                   effectPending, resp, res, data, err, requests, inflight,
                   setCalls, unmountedAt>>

\* The value fetchData hands to setMessage (lines 65-70).  Reading .message
\* of null throws inside the try, so it ends in the catch as well.
FetchDataValue(h) ==
    IF h.state = "fulfilled" /\ h.data.t # "null"
    THEN GetMessage(h.data)
    ELSE Str(Fallback)

\* fetchData resumes after its await.
FetchDataResume ==
    /\ variant = "axios"
    /\ pc \in {"helloFulfilled", "helloRejected"}
    /\ data' = helloResult.data
    /\ SetState(FetchDataValue(helloResult))
    /\ pc' = "done"
    /\ UNCHANGED <<variant, env, api, phase, view, renders, effectPending,
                   resp, res, err, helloResult, log, requests, inflight,
                   unmountedAt>>

-----------------------------------------------------------------------------

Next ==
    \/ Mount
    \/ Rerender
    \/ RunEffect
    \/ Unmount
    \/ FetchSettle
    \/ ThenJson
    \/ ThenSetMsg
    \/ CatchLog
    \/ ApiGetSettle
    \/ GetHelloResume
    \/ FetchDataResume

Spec == Init /\ [][Next]_vars

\* The browser settles every request and runs every queued callback.
FairSpec ==
    /\ Spec
    /\ WF_vars(FetchSettle)
    /\ WF_vars(ThenJson)
    /\ WF_vars(ThenSetMsg)
    /\ WF_vars(CatchLog)
    /\ WF_vars(ApiGetSettle)
    /\ WF_vars(GetHelloResume)
    /\ WF_vars(FetchDataResume)

-----------------------------------------------------------------------------
(* Properties                                                              *)

\* Status in 2xx.
HttpOk(s) == s >= 200 /\ s < 300

\* The response carries {message: m} for a message m of the backend.
Carries(r, m) == r.kind = "http" /\ r.body = JsonBody(m)

\* A failed request in the sense of the contract: network error, status
\* outside 2xx, or a body that is not JSON or has no message.
IsFailure(r) ==
    \/ r.kind = "neterr"
    \/ /\ r.kind = "http"
       /\ \/ ~HttpOk(r.status)
          \/ \A m \in Msgs : r.body # JsonBody(m)

Settled == phase = "mounted" /\ ~dirty

\* C1: once the chain has finished on a failed request (network error,
\* status outside 2xx, body that is not JSON or has no message), an error has
\* been logged and the re-rendered view shows the fallback string, in both
\* revisions.
C1_FailureShowsFallbackAndLogs ==
    (pc = "done" /\ IsFailure(resp)) =>
        /\ Len(log) >= 1
        /\ Settled => Contains(view, Fallback)

\* C2: once the chain has finished on a 2xx response whose body is
\* {message: m}, the state cell holds m and the re-rendered view contains m,
\* for every message m of the backend, the empty one included.
C2_SuccessShowsMessage ==
    \A m \in Msgs :
        (pc = "done" /\ Carries(resp, m) /\ HttpOk(resp.status)) =>
            /\ msg = Str(m)
            /\ Settled => Contains(view, m)

C2_Witness ==
    /\ pc = "done"
    /\ Carries(resp, "hi")
    /\ resp.status = 200
    /\ Settled
    /\ Contains(view, "hi")

\* C3: after a response of status 500 whose body carries a non-empty
\* message, the state cell never holds that message and the view never
\* shows it.
C3_FailureNeverShowsRawMessage ==
    \A m \in Msgs \ {""} :
        (Carries(resp, m) /\ resp.status = 500) =>
            /\ msg # Str(m)
            /\ ~Contains(view, m)

\* C4: a mount never writes the state cell twice, and a finished chain has
\* written it exactly once, whatever the response was.
C4_ExactlyOneWrite ==
    /\ Len(setCalls) <= 1
    /\ pc = "done" => Len(setCalls) = 1

\* C5: a mount never issues a second request, has issued exactly one once
\* its effect has run, and every request goes to the configured base URL
\* followed by /api/hello.
C5_OneRequestToBaseURL ==
    /\ Len(requests) <= 1
    /\ pc # "idle" => Len(requests) = 1
    /\ \A i \in 1..Len(requests) : requests[i] = ApiBaseURL(env) \o HelloPath

\* C6: while the request is issued and its chain has not finished, the state
\* cell is still empty and a mounted view shows "Loading..." (fetch
\* revision) or the label with an empty message (axios revision); it shows
\* neither a backend message nor the fallback string.
C6_PendingShowsPlaceholder ==
    (pc \notin {"idle", "done"} /\ phase = "mounted") =>
        /\ msg = Str("")
        /\ view = IF variant = "fetch" THEN Loading
                  ELSE AxiosHeading \o AxiosLabel
        /\ ~Contains(view, Fallback)
        /\ \A m \in Msgs \ {""} : ~Contains(view, m)

C6_Witness ==
    /\ pc = "pending"
    /\ phase = "mounted"
    /\ renders >= 2
    /\ variant = "fetch"
    /\ view = Loading

\* C7 as claimed: the client's base URL is the override whenever one is
\* provided, the empty string included, and the default otherwise.
C7_OverrideAlwaysWins ==
    /\ env.t = "str" => api.baseURL = env.s
    /\ env.t = "undef" => api.baseURL = DefaultBaseURL

\* C7, amended: the client's base URL is the override whenever a non-empty
\* override is provided, and the default http://localhost:8000 when the
\* override is missing or empty; the axios revision's request goes there.
C7_NonEmptyOverrideWins ==
    /\ (env.t = "str" /\ env.s # "") => api.baseURL = env.s
    /\ (env.t = "undef" \/ env.s = "") => api.baseURL = "http://localhost:8000"
    /\ variant = "axios" =>
          \A i \in 1..Len(requests) : requests[i] = api.baseURL \o "/api/hello"

C7_Witness ==
    /\ env = Str("")
    /\ variant = "axios"
    /\ requests = <<"http://localhost:8000/api/hello">>

\* The chain has finished and its last handler has acted: the setter was
\* called once, or (fetch revision, rejected chain) the error was logged once.
C8_HandlerRan ==
    /\ pc = "done"
    /\ IF variant = "axios" THEN Len(setCalls) = 1
       ELSE (Len(setCalls) = 1 /\ log = <<>>) \/ (setCalls = <<>> /\ Len(log) = 1)

\* C8: at most one request is in flight; unmounting changes neither the
\* request in flight nor the position of the chain; and after an unmount
\* with the request pending the chain still runs to its end, having called
\* the state setter (axios revision: always; fetch revision: when nothing
\* rejected) or logged the error.
C8_UnmountDoesNotCancel ==
    /\ [](inflight <= 1)
    /\ [][(phase = "mounted" /\ phase' = "unmounted") =>
            (pc' = pc /\ inflight' = inflight)]_vars
    /\ (phase = "unmounted" /\ unmountedAt = "pending") ~> C8_HandlerRan

C8_Witness ==
    /\ phase = "unmounted"
    /\ unmountedAt = "pending"
    /\ C8_HandlerRan
    /\ Len(setCalls) = 1

\* C9: once getHello has settled, it is rejected with the very error api.get
\* rejected with and that error was logged exactly once, or it is fulfilled
\* with the response's data (for a body {message: m}: an object whose message
\* is m) and nothing was logged.
C9_GetHelloPassesThrough ==
    (variant = "axios" /\ helloResult.state # "none") =>
        IF resp.kind = "http" /\ HttpOk(resp.status)
        THEN /\ helloResult.state = "fulfilled"
             /\ helloResult.data = res.data
             /\ \A m \in Msgs : Carries(resp, m) =>
                    helloResult.data = JsObj(TRUE, Str(m))
             /\ resp.body = NotJson => helloResult.data = JsText(NotJson)
             /\ log = <<>>
        ELSE /\ helloResult.state = "rejected"
             /\ helloResult.err = err
             /\ err \in {ErrAxiosNetwork, ErrAxiosStatus}
             /\ log = <<[prefix |-> LogPrefix, err |-> err]>>

C9_Witness ==
    /\ variant = "axios"
    /\ resp.kind = "http"
    /\ resp.status = 500
    /\ helloResult.state = "rejected"
    /\ Len(log) = 1

\* The fetch chain rejects on this response, or fulfils with a message that
\* is empty or missing.
C10_NoText(r) ==
    \/ r.kind = "neterr"
    \/ r.kind = "http" /\ r.body \in {NotJson, "null", "{}", JsonBody("")}

\* C10: in the fetch revision a rejected chain has logged and has left the
\* state cell as it was, never calling the setter; a re-rendered view shows
\* "Loading..." when msg is falsy and msg otherwise; and once the chain has
\* finished on a rejection or on an empty or missing message, a mounted view
\* shows "Loading..." in every state.
C10_FetchFailureKeepsLoading ==
    variant = "fetch" =>
        /\ Len(log) >= 1 => (msg = InitialMsg /\ setCalls = <<>>)
        /\ Settled => view = (IF msg.t = "str" /\ msg.s # "" THEN msg.s
                              ELSE "Loading...")
        /\ (pc = "done" /\ C10_NoText(resp) /\ phase = "mounted") =>
              (view = "Loading..." /\ ~(msg.t = "str" /\ msg.s # ""))

C10_Witness ==
    /\ variant = "fetch"
    /\ pc = "done"
    /\ resp = NetErr
    /\ Len(log) = 1
    /\ phase = "mounted"
    /\ renders >= 2
    /\ view = "Loading..."

====
